---- MODULE Spec2Model ----
(***************************************************************************)
(* A model of the TerraProbe Terraform provider: the provider's Configure, *)
(* the four probe resources (HTTP, TCP, DNS, DB) with their lifecycle      *)
(* calls and the retry loop of runTest, and the test-suite resource.       *)
(*                                                                         *)
(* A framework value (types.Int64, types.String, types.Bool) is a sequence *)
(* of length 0 (null) or 1 (the value).  Durations are whole seconds.      *)
(* An error text is a sequence of clauses; the empty text is <<>>.         *)
(***************************************************************************)
EXTENDS Integers, Sequences, FiniteSets, TLC

(***************************************************************************)
(* Bounds of the model.                                                    *)
(***************************************************************************)
\* largest retry count a provider or resource block is given
MaxRetries == 2
\* largest timeout / retry delay (seconds) a block is given in SpecConfig
MaxSeconds == 1
\* largest measured duration of one attempt (milliseconds)
MaxElapsed == 1

(***************************************************************************)
(* Framework values.                                                       *)
(***************************************************************************)
Null == <<>>
Some(v) == <<v>>
IsNull(x) == Len(x) = 0
\* ValueInt64 of a null value is 0
ValueInt64(x) == IF Len(x) = 1 THEN x[1] ELSE 0
\* ValueBool of a null value is false
ValueBool(x) == IF Len(x) = 1 THEN x[1] ELSE FALSE
\* ValueString of a null value is ""
ValueString(x) == IF Len(x) = 1 THEN x[1] ELSE ""
\* a string whose characters matter is a sequence of characters
ValueChars(x) == IF Len(x) = 1 THEN x[1] ELSE <<>>

\* a computed attribute the plan does not know yet
Unknown == <<"unknown", "unknown">>
IsUnknown(x) == Len(x) = 2

Kinds == {"http", "tcp", "dns", "db"}

(***************************************************************************)
(* Provider configuration.                                                 *)
(***************************************************************************)
\* the defaults Configure uses for attributes the provider block leaves out
DefaultTimeout == 30
DefaultRetries == 3
DefaultRetryDelay == 5
DefaultUserAgent == "TerraProbe Terraform Provider"
\* the timeouts the DNS and DB probes start from
DnsBaseTimeout == 5
DbBaseTimeout == 10

\* TerraProbeProvider.Configure: the client configuration built from a
\* provider block; an attribute that is set is taken as it is, whatever
\* its sign.
ProviderConfigure(block) ==
  [ Timeout    |-> IF ~IsNull(block.default_timeout)
                   THEN ValueInt64(block.default_timeout) ELSE DefaultTimeout,
    Retries    |-> IF ~IsNull(block.default_retries)
                   THEN ValueInt64(block.default_retries) ELSE DefaultRetries,
    RetryDelay |-> IF ~IsNull(block.default_retry_delay)
                   THEN ValueInt64(block.default_retry_delay) ELSE DefaultRetryDelay,
    UserAgent  |-> IF ~IsNull(block.user_agent)
                   THEN ValueString(block.user_agent) ELSE DefaultUserAgent ]

\* the client configuration of a provider that was not configured yet
NoClientConfig == [Timeout |-> 0, Retries |-> 0, RetryDelay |-> 0, UserAgent |-> ""]

(***************************************************************************)
(* The head of runTest: timeout, retries and retry delay.                  *)
(***************************************************************************)
\* a slip: the override also taken for a value of 0
OverrideNonNegative(resourceValue, base) ==
  IF ~IsNull(resourceValue) /\ ValueInt64(resourceValue) >= 0
  THEN ValueInt64(resourceValue) ELSE base

\* a resource-level value overrides only when it is set and > 0
Override(resourceValue, base) ==
  IF ~IsNull(resourceValue) /\ ValueInt64(resourceValue) > 0
  THEN ValueInt64(resourceValue) ELSE base

TcpTimeout(cc, d)  == Override(d.Timeout, cc.Timeout)
HttpTimeout(cc, d) == Override(d.Timeout, cc.Timeout)
DbTimeout(cc, d)   == Override(d.Timeout, DbBaseTimeout)
DnsTimeout(cc, d)  == Override(d.Timeout, DnsBaseTimeout)

ResolveTimeout(k, cc, d) ==
  CASE k = "tcp"  -> TcpTimeout(cc, d)
    [] k = "http" -> HttpTimeout(cc, d)
    [] k = "db"   -> DbTimeout(cc, d)
    [] k = "dns"  -> DnsTimeout(cc, d)

ResolveRetries(k, cc, d) == Override(d.Retries, cc.Retries)

ResolveRetryDelay(k, cc, d) == Override(d.RetryDelay, cc.RetryDelay)

(***************************************************************************)
(* Resource models.  A plan holds the configured attributes; the computed  *)
(* result attributes are unknown in a plan and known in the state.         *)
(***************************************************************************)
TcpPlan(t, r, rd) ==
  [ kind |-> "tcp", Timeout |-> t, Retries |-> r, RetryDelay |-> rd, Id |-> Unknown,
    LastRun |-> Unknown, LastConnectTime |-> Unknown,
    TestPassed |-> Unknown, Error |-> Unknown ]

\* UrlOk: whether http.NewRequestWithContext accepts the method and URL
HttpPlan(t, r, rd, urlOk, code, contains) ==
  [ kind |-> "http", Timeout |-> t, Retries |-> r, RetryDelay |-> rd, Id |-> Unknown,
    UrlOk |-> urlOk, ExpectStatusCode |-> code, ExpectContains |-> contains,
    LastRun |-> Unknown, LastStatusCode |-> Unknown, LastResponseBody |-> Unknown,
    LastResponseTime |-> Unknown, TestPassed |-> Unknown, Error |-> Unknown ]

DnsPlan(t, r, rd, recordType, expect) ==
  [ kind |-> "dns", Timeout |-> t, Retries |-> r, RetryDelay |-> rd, Id |-> Unknown,
    RecordType |-> recordType, ExpectResult |-> expect, Resolver |-> Null,
    LastRun |-> Unknown, LastResult |-> Unknown, LastResultTime |-> Unknown,
    TestPassed |-> Unknown, Error |-> Unknown ]

DbPlan(t, r, rd, type) ==
  [ kind |-> "db", Timeout |-> t, Retries |-> r, RetryDelay |-> rd, Id |-> Unknown,
    Type |-> type,
    LastRun |-> Unknown, LastQueryTime |-> Unknown, LastResultRows |-> Unknown,
    TestPassed |-> Unknown, Error |-> Unknown ]

\* no resource in the Terraform state
NoState == [kind |-> "none"]

(***************************************************************************)
(* The inputs of the model.                                                *)
(***************************************************************************)
OptInt(lo, hi) == {Null} \cup {Some(n) : n \in lo..hi}

\* the provider blocks and plans of Spec: the retry counts vary, so that
\* the resolved count is negative, 0, MaxRetries or the default
ProviderBlocks ==
  { [default_timeout |-> Null, default_retries |-> r,
     default_retry_delay |-> Null, user_agent |-> Null] : r \in OptInt(-1, 0) }

ResourceRetries == {Null, Some(MaxRetries)}

StatusCodes == {200, 404}
Bodies == { <<"o", "k">>, <<"n", "o">> }
ExpectStatusCodes == {Null, Some(404)}
ExpectContainsValues == {Null, Some(<<"o", "k">>)}

RecordTypes == {"A", "AAAA", "CNAME", "MX", "TXT", "NS"}
\* the record types of the plans: an address lookup, the single-valued CNAME,
\* TXT (whose lookup assigns the result list itself) and an unsupported one
RecordTypeInputs == {"A", "CNAME", "TXT", "INVALID"}
\* a record to find, and the separator of the joined result
ExpectResults == {Null, Some("r2"), Some(", ")}
\* what a lookup that succeeds returns, each record already as a string:
\* LookupCNAME one name, LookupIP one address at least, and the lookups that
\* hand back the records of the answer (TXT, MX, NS) possibly none
LookupResults(recordType) ==
  CASE recordType = "CNAME" -> { <<"r1">>, <<"r2">> }
    [] recordType \in {"A", "AAAA"} -> { <<"r1">>, <<"r1", "r2">> }
    [] OTHER -> { <<>>, <<"r1">>, <<"r1", "r2">> }

DbTypes == {"postgres", "mysql"}
DbTypeInputs == DbTypes \cup {"oracle"}

Plans(k) ==
  CASE k = "tcp"  -> { TcpPlan(Null, r, Null) : r \in ResourceRetries }
    [] k = "http" -> { HttpPlan(Null, r, Null, u, c, s) :
                         r \in ResourceRetries, u \in BOOLEAN,
                         c \in ExpectStatusCodes, s \in ExpectContainsValues }
    [] k = "dns"  -> { DnsPlan(Null, r, Null, rt, e) :
                         r \in ResourceRetries, rt \in RecordTypeInputs,
                         e \in ExpectResults }
    [] k = "db"   -> { DbPlan(Null, r, Null, ty) :
                         r \in ResourceRetries, ty \in DbTypeInputs }
    [] OTHER      -> {}

\* the configured attributes of each kind
ConfigAttrs(k) ==
  {"Timeout", "Retries", "RetryDelay"} \cup
  CASE k = "http" -> {"UrlOk", "ExpectStatusCode", "ExpectContains"}
    [] k = "dns"  -> {"RecordType", "ExpectResult"}
    [] k = "db"   -> {"Type"}
    [] OTHER      -> {}

\* the plans of an Update in Spec: one attribute of the stored resource changes
UpdatePlans(st) ==
  { p \in Plans(st.kind) :
      Cardinality({a \in ConfigAttrs(st.kind) : p[a] # st[a]}) = 1 }

\* what ImportStatePassthroughID leaves in the state: the id, all else null
Imported(k) ==
  LET n == [a \in {"Timeout", "Retries", "RetryDelay", "LastRun", "TestPassed", "Error"}
              |-> Null]
          @@ [kind |-> k, Id |-> Some([prefix |-> k, at |-> "import"])]
  IN CASE k = "tcp"  -> n @@ [LastConnectTime |-> Null]
       [] k = "http" -> n @@ [UrlOk |-> TRUE, ExpectStatusCode |-> Null,
                              ExpectContains |-> Null, LastStatusCode |-> Null,
                              LastResponseBody |-> Null, LastResponseTime |-> Null]
       [] k = "dns"  -> n @@ [RecordType |-> "", ExpectResult |-> Null,
                              Resolver |-> Null,
                              LastResult |-> Null, LastResultTime |-> Null]
       [] k = "db"   -> n @@ [Type |-> "", LastQueryTime |-> Null,
                              LastResultRows |-> Null]

(***************************************************************************)
(* What one attempt can meet.  An outcome says whether the attempt's calls *)
(* succeeded, the stage that failed, the measured duration and the         *)
(* observation.                                                            *)
(***************************************************************************)
\* largest number of rows a query returns
MaxRows == 1
Elapsed == 0..MaxElapsed

TcpOutcomes ==
  { [ok |-> b, stage |-> IF b THEN "none" ELSE "dial", elapsed |-> e] :
      b \in BOOLEAN, e \in Elapsed }

HttpOutcomes ==
  { [ok |-> FALSE, stage |-> "transport", elapsed |-> e, resp |-> Null] : e \in Elapsed }
  \cup
  { [ok |-> TRUE, stage |-> "none", elapsed |-> e,
     resp |-> Some([StatusCode |-> c, Body |-> b, BodyErr |-> FALSE])] :
      e \in Elapsed, c \in StatusCodes, b \in Bodies }
  \cup
  { [ok |-> TRUE, stage |-> "none", elapsed |-> e,
     resp |-> Some([StatusCode |-> c, Body |-> <<>>, BodyErr |-> TRUE])] :
      e \in Elapsed, c \in StatusCodes }

DnsOutcomes(recordType) ==
  IF recordType \in RecordTypes
  THEN { [ok |-> FALSE, stage |-> "lookup", elapsed |-> e, result |-> <<>>] :
           e \in Elapsed }
       \cup
       { [ok |-> TRUE, stage |-> "none", elapsed |-> e, result |-> r] :
           e \in Elapsed, r \in LookupResults(recordType) }
  ELSE { [ok |-> FALSE, stage |-> "unsupported", elapsed |-> e, result |-> <<>>] :
           e \in Elapsed }

DbOutcomes ==
  { [ok |-> FALSE, stage |-> st, elapsed |-> 0, rows |-> 0] : st \in {"open", "ping"} }
  \cup
  { [ok |-> FALSE, stage |-> "query", elapsed |-> e, rows |-> 0] : e \in Elapsed }
  \cup
  { [ok |-> FALSE, stage |-> "rows", elapsed |-> e, rows |-> n] :
      e \in Elapsed, n \in 0..MaxRows }
  \cup
  { [ok |-> TRUE, stage |-> "none", elapsed |-> e, rows |-> n] :
      e \in Elapsed, n \in 0..MaxRows }

Outcomes(d) ==
  CASE d.kind = "tcp"  -> TcpOutcomes
    [] d.kind = "http" -> HttpOutcomes
    [] d.kind = "dns"  -> DnsOutcomes(d.RecordType)
    [] d.kind = "db"   -> DbOutcomes
    [] OTHER           -> {}

\* the error value of attempt n failing at a stage
ErrorOf(n, stage) == Some([attempt |-> n, stage |-> stage])

(***************************************************************************)
(* One pass through the body of a probe's retry loop.  Each gives the      *)
(* loop's variables after the pass (err, elapsed, obs), whether the pass   *)
(* left the loop with break, and whether it slept.  l holds the variables  *)
(* before the pass: i, retries, err, elapsed, obs.                         *)
(***************************************************************************)
\* a slip: the break after a connection is missing
TcpAttemptNoBreak(d, l, o) ==
  [ err     |-> IF o.ok THEN Null ELSE ErrorOf(l.i, o.stage),
    elapsed |-> o.elapsed,
    obs     |-> l.obs,
    brk     |-> FALSE,
    slp     |-> ~o.ok /\ l.i < l.retries ]

TcpAttempt(d, l, o) ==
  [ err     |-> IF o.ok THEN Null ELSE ErrorOf(l.i, o.stage),
    elapsed |-> o.elapsed,
    obs     |-> l.obs,
    brk     |-> o.ok,
    slp     |-> ~o.ok /\ l.i < l.retries ]

\* a slip: a response with the wrong status code does not end the loop
HttpAttemptRetriesOnStatus(d, l, o) ==
  [ err     |-> IF o.ok THEN Null ELSE ErrorOf(l.i, o.stage),
    elapsed |-> o.elapsed,
    obs     |-> o.resp,
    brk     |-> o.ok /\ o.resp[1].StatusCode =
                  (IF IsNull(d.ExpectStatusCode) THEN 200 ELSE d.ExpectStatusCode[1]),
    slp     |-> ~o.ok /\ l.i < l.retries ]

HttpAttempt(d, l, o) ==
  [ err     |-> IF o.ok THEN Null ELSE ErrorOf(l.i, o.stage),
    elapsed |-> o.elapsed,
    obs     |-> o.resp,
    brk     |-> o.ok,
    slp     |-> ~o.ok /\ l.i < l.retries ]

DnsAttempt(d, l, o) ==
  [ err     |-> IF o.ok THEN Null ELSE ErrorOf(l.i, o.stage),
    elapsed |-> o.elapsed,
    obs     |-> IF o.ok THEN o.result
                ELSE IF d.RecordType = "TXT" THEN <<>> ELSE l.obs,
    brk     |-> o.ok,
    slp     |-> ~o.ok /\ l.i < l.retries ]

\* a slip: the last pass does not copy a ping, query or row error to openErr
DbAttemptDropsError(d, l, o) ==
  [ err     |-> CASE o.ok -> Null
                  [] o.stage = "open" -> ErrorOf(l.i, "open")
                  [] OTHER -> Null,
    elapsed |-> IF o.stage \in {"open", "ping"} THEN l.elapsed ELSE o.elapsed,
    obs     |-> IF o.stage \in {"rows", "none"} THEN o.rows ELSE l.obs,
    brk     |-> o.ok \/ ~(l.i < l.retries),
    slp     |-> ~o.ok /\ l.i < l.retries ]

\* sql.Open sets openErr itself; a later stage's error reaches openErr only
\* on the last pass, just before its break
DbAttempt(d, l, o) ==
  [ err     |-> CASE o.ok -> Null
                  [] o.stage = "open" -> ErrorOf(l.i, "open")
                  [] OTHER -> IF l.i < l.retries THEN Null ELSE ErrorOf(l.i, o.stage),
    elapsed |-> IF o.stage \in {"open", "ping"} THEN l.elapsed ELSE o.elapsed,
    obs     |-> IF o.stage \in {"rows", "none"} THEN o.rows ELSE l.obs,
    brk     |-> o.ok \/ ~(l.i < l.retries),
    slp     |-> ~o.ok /\ l.i < l.retries ]

\* a slip: a failed ping leaves its handle open
DbHandleCallsNoCloseAfterPing(o) ==
  CASE o.stage = "open" -> <<>>
    [] o.stage = "ping" -> << "Open" >>
    [] OTHER            -> << "Open", "Close" >>

\* the calls of a DB pass that open and close a database handle: sql.Open
\* gives no handle when it fails; db.Close() follows a failed ping, a failed
\* query, a row error and the counted rows
DbHandleCalls(o) ==
  CASE o.stage = "open" -> <<>>
    [] OTHER            -> << "Open", "Close" >>

\* the handles after a sequence of calls
RECURSIVE HandlesAfter(_, _)
HandlesAfter(h, calls) ==
  IF calls = <<>> THEN h
  ELSE LET n == IF calls[1] = "Open" THEN h.open + 1 ELSE h.open - 1
       IN HandlesAfter([open |-> n, most |-> IF n > h.most THEN n ELSE h.most],
                       Tail(calls))

AttemptStep(d, l, o) ==
  CASE d.kind = "tcp"  -> TcpAttempt(d, l, o)
    [] d.kind = "http" -> HttpAttempt(d, l, o)
    [] d.kind = "dns"  -> DnsAttempt(d, l, o)
    [] d.kind = "db"   -> DbAttempt(d, l, o)

\* the loop's variables before the first pass
ZeroObs(k) ==
  CASE k = "tcp"  -> 0
    [] k = "http" -> Null
    [] k = "dns"  -> <<>>
    [] k = "db"   -> 0

(***************************************************************************)
(* After the loop: the result written to the model.  An error text is a   *)
(* sequence of clauses, "" is <<>>.                                        *)
(***************************************************************************)
\* strings.Contains
Contains(str, sub) ==
  \E k \in 0..(Len(str) - Len(sub)) : SubSeq(str, k + 1, k + Len(sub)) = sub

\* "<text>: <err.Error()>"
FailureText(text, e) == << [text |-> text, cause |-> e[1]] >>

\* a slip: a connection leaves the error text of the model as it was
TcpPostKeepsError(d, e, el, ob) ==
  IF ~IsNull(e)
  THEN [d EXCEPT !.Error = Some(FailureText("TCP connection failed", e)),
                 !.TestPassed = Some(FALSE),
                 !.LastConnectTime = Some(0)]
  ELSE [d EXCEPT !.LastConnectTime = Some(el),
                 !.TestPassed = Some(TRUE)]

TcpPost(d, e, el, ob) ==
  IF ~IsNull(e)
  THEN [d EXCEPT !.Error = Some(FailureText("TCP connection failed", e)),
                 !.TestPassed = Some(FALSE),
                 !.LastConnectTime = Some(0)]
  ELSE [d EXCEPT !.LastConnectTime = Some(el),
                 !.TestPassed = Some(TRUE),
                 !.Error = Some(<<>>)]

\* the status code the response is compared with
ExpectedStatusCode(d) ==
  IF ~IsNull(d.ExpectStatusCode) THEN ValueInt64(d.ExpectStatusCode) ELSE 200

StatusClause(d, resp) ==
  IF resp.StatusCode # ExpectedStatusCode(d)
  THEN << [text |-> "Expected status code", expected |-> ExpectedStatusCode(d),
           got |-> resp.StatusCode] >>
  ELSE <<>>

\* a slip: the body is only looked at when the status code matched
ContainsClauseAfterStatus(d, resp) ==
  IF resp.StatusCode = ExpectedStatusCode(d)
     /\ ~IsNull(d.ExpectContains) /\ ValueChars(d.ExpectContains) # <<>>
     /\ ~Contains(resp.Body, ValueChars(d.ExpectContains))
  THEN << [text |-> "Response body does not contain",
           expected |-> ValueChars(d.ExpectContains)] >>
  ELSE <<>>

ContainsClause(d, resp) ==
  IF ~IsNull(d.ExpectContains) /\ ValueChars(d.ExpectContains) # <<>>
     /\ ~Contains(resp.Body, ValueChars(d.ExpectContains))
  THEN << [text |-> "Response body does not contain",
           expected |-> ValueChars(d.ExpectContains)] >>
  ELSE <<>>

\* with no response and no error (the loop ran no pass) resp.Body is read
\* through a nil pointer
HttpPanics(e, ob) == IsNull(e) /\ IsNull(ob)

\* a slip: the substring is looked for in the body the model already holds
HttpPostChecksStoredBody(d, e, el, ob) ==
  IF ~IsNull(e)
  THEN [d EXCEPT !.Error = Some(FailureText("Request failed", e)),
                 !.TestPassed = Some(FALSE),
                 !.LastResponseTime = Some(0),
                 !.LastStatusCode = Some(0),
                 !.LastResponseBody = Some(<<>>)]
  ELSE IF ob[1].BodyErr
  THEN [d EXCEPT !.Error = Some(<< [text |-> "Failed to read response body"] >>),
                 !.TestPassed = Some(FALSE),
                 !.LastResponseTime = Some(el),
                 !.LastStatusCode = Some(ob[1].StatusCode),
                 !.LastResponseBody = Some(<<>>)]
  ELSE LET stored == [ob[1] EXCEPT !.Body = ValueChars(d.LastResponseBody)]
           clauses == StatusClause(d, ob[1]) \o ContainsClause(d, stored)
       IN [d EXCEPT !.LastResponseTime = Some(el),
                    !.LastStatusCode = Some(ob[1].StatusCode),
                    !.LastResponseBody = Some(ob[1].Body),
                    !.TestPassed = Some(clauses = <<>>),
                    !.Error = Some(clauses)]

HttpPost(d, e, el, ob) ==
  IF ~IsNull(e)
  THEN [d EXCEPT !.Error = Some(FailureText("Request failed", e)),
                 !.TestPassed = Some(FALSE),
                 !.LastResponseTime = Some(0),
                 !.LastStatusCode = Some(0),
                 !.LastResponseBody = Some(<<>>)]
  ELSE IF ob[1].BodyErr
  THEN [d EXCEPT !.Error = Some(<< [text |-> "Failed to read response body"] >>),
                 !.TestPassed = Some(FALSE),
                 !.LastResponseTime = Some(el),
                 !.LastStatusCode = Some(ob[1].StatusCode),
                 !.LastResponseBody = Some(<<>>)]
  ELSE LET clauses == StatusClause(d, ob[1]) \o ContainsClause(d, ob[1])
       IN [d EXCEPT !.LastResponseTime = Some(el),
                    !.LastStatusCode = Some(ob[1].StatusCode),
                    !.LastResponseBody = Some(ob[1].Body),
                    !.TestPassed = Some(clauses = <<>>),
                    !.Error = Some(clauses)]

\* the records joined with ", "
RECURSIVE JoinComma(_)
JoinComma(result) ==
  IF Len(result) = 0 THEN <<>>
  ELSE IF Len(result) = 1 THEN << result[1] >>
  ELSE JoinComma(SubSeq(result, 1, Len(result) - 1)) \o << ", ", result[Len(result)] >>

DnsFound(d, result) ==
  \E n \in 1..Len(result) : result[n] = ValueString(d.ExpectResult)

DnsPost(d, e, el, ob) ==
  IF ~IsNull(e)
  THEN [d EXCEPT !.Error = Some(FailureText("DNS lookup failed", e)),
                 !.TestPassed = Some(FALSE),
                 !.LastResultTime = Some(el),
                 !.LastResult = Some(<<>>)]
  ELSE LET checked == ~IsNull(d.ExpectResult) /\ ValueString(d.ExpectResult) # ""
           passed == ~checked \/ DnsFound(d, ob)
       IN [d EXCEPT !.LastResultTime = Some(el),
                    !.LastResult = Some(JoinComma(ob)),
                    !.TestPassed = Some(passed),
                    !.Error = IF passed THEN Some(<<>>)
                              ELSE Some(<< [text |-> "Expected result not found in DNS response",
                                            expected |-> ValueString(d.ExpectResult)] >>)]

DbPost(d, e, el, ob) ==
  IF ~IsNull(e)
  THEN [d EXCEPT !.Error = Some(FailureText("Database test failed", e)),
                 !.TestPassed = Some(FALSE),
                 !.LastQueryTime = Some(0),
                 !.LastResultRows = Some(0)]
  ELSE [d EXCEPT !.LastQueryTime = Some(el),
                 !.LastResultRows = Some(ob),
                 !.TestPassed = Some(TRUE),
                 !.Error = Some(<<>>)]

Post(d, e, el, ob) ==
  CASE d.kind = "tcp"  -> TcpPost(d, e, el, ob)
    [] d.kind = "http" -> HttpPost(d, e, el, ob)
    [] d.kind = "dns"  -> DnsPost(d, e, el, ob)
    [] d.kind = "db"   -> DbPost(d, e, el, ob)

(***************************************************************************)
(* The probes a test suite can reference.                                  *)
(***************************************************************************)
\* number of HTTP probes a suite can reference
MaxHttpProbes == 2
HttpIds == { <<"http", n>> : n \in 1..MaxHttpProbes }
TcpIds == { <<"tcp", 1>> }
DnsIds == { <<"dns", 1>> }
DbIds == { <<"db", 1>> }
ProbeIds == HttpIds \cup TcpIds \cup DnsIds \cup DbIds

(***************************************************************************)
(* The state.                                                              *)
(***************************************************************************)
VARIABLES
  pc,            \* "unconfigured", "idle", "loop", "sleep", "post", "panic"
  clientConfig,  \* the TerraProbeClientConfig the resources share
  op,            \* the lifecycle call running or last run
  data,          \* the model the lifecycle call works on
  state,         \* the resource in the Terraform state
  timeout, retries, retryDelay,   \* runTest's resolved values
  i,             \* the loop counter
  err,           \* the loop's error variable
  elapsed,       \* the loop's measured duration
  obs,           \* the loop's observation: response, result list, row count
  attempts,      \* passes through the loop body in this call
  sleeps,        \* time.Sleep calls in this call
  log,           \* the success flag of each pass, in order
  lastStage,     \* the stage the latest pass failed at, "none" if it did not
  handles,       \* database handles: open now, the most open during this call
  hardErr,       \* runTest returned an error: an error diagnostic was added
  suite,         \* the test-suite resource in the Terraform state
  suiteOp,       \* the suite's lifecycle call last run
  probes,        \* test_passed of each probe a suite can reference, as stored
  clock,         \* seconds since the running runTest call began
  cancel,        \* Null, or where the call was when its context was cancelled
  peer,          \* Null, or a runTest call of another resource in flight
  wallClock,     \* the machine's time, in ticks
  resources      \* the other probe resources a Create stored, in order

loopVars == << i, err, elapsed, obs, attempts, sleeps, log, lastStage, handles >>
resolved == << timeout, retries, retryDelay >>
suiteVars == << suite, suiteOp, probes >>
envVars == << clock, cancel, peer >>
idVars == << wallClock, resources >>
vars == << pc, clientConfig, op, data, state, timeout, retries, retryDelay,
           i, err, elapsed, obs, attempts, sleeps, log, lastStage, handles, hardErr,
           suite, suiteOp, probes, clock, cancel, peer, wallClock, resources >>

Init ==
  /\ pc = "unconfigured"
  /\ clientConfig = NoClientConfig
  /\ op = "none"
  /\ data = NoState
  /\ state = NoState
  /\ timeout = 0 /\ retries = 0 /\ retryDelay = 0
  /\ i = 0 /\ err = Null /\ elapsed = 0 /\ obs = 0
  /\ attempts = 0 /\ sleeps = 0 /\ log = <<>> /\ lastStage = "none"
  /\ handles = [open |-> 0, most |-> 0]
  /\ hardErr = FALSE
  /\ suite = NoState
  /\ suiteOp = "none"
  /\ probes = [id \in ProbeIds |-> TRUE]
  /\ clock = 0
  /\ cancel = Null
  /\ peer = Null
  /\ wallClock = 0
  /\ resources = <<>>

(***************************************************************************)
(* The provider is configured once per process.                            *)
(***************************************************************************)
Configure(block) ==
  /\ pc = "unconfigured"
  /\ clientConfig' = ProviderConfigure(block)
  /\ pc' = "idle"
  /\ UNCHANGED << idVars, op, data, state, resolved, loopVars, hardErr, suiteVars, envVars >>

(***************************************************************************)
(* A lifecycle call up to the retry loop: the model is read, runTest       *)
(* resolves its values and leaves at once on an unsupported database type  *)
(* or a request that cannot be built.                                      *)
(***************************************************************************)
\* ticks in a second: the layout "20060102150405" keeps whole seconds
TicksPerSecond == 2
\* time.Now().Format("20060102150405") at tick t
Stamps == << "now", "now+1s", "now+2s", "now+3s", "now+4s" >>
Format(t) == Stamps[(t \div TicksPerSecond) + 1]
\* fmt.Sprintf("<kind>-test-%s", time.Now().Format("20060102150405"))
NewId(k) == Some([prefix |-> k, at |-> Format(wallClock)])
Now == Some("now")

\* a slip: the switch has no default branch
DbUnsupportedNever(d) == FALSE

\* the default branch of the switch on the database type
DbUnsupported(d) == d.Type \notin DbTypes

\* a slip: the probe sets its timeout on the provider-wide HTTP client
ClientConfigOverridden(k, cc, t) ==
  IF k \in {"http", "tcp"} THEN [cc EXCEPT !.Timeout = t] ELSE cc

\* what runTest leaves in the provider-wide configuration: it only reads it;
\* the HTTP probe builds a client of its own for its timeout
ClientConfigAfter(k, cc, t) == cc

\* time.Sleep returns at once for a duration <= 0
SleepTime(d) == IF d > 0 THEN d ELSE 0

\* a slip: the return after AddError is missing, LastRun is set and the
\* model is written to the state
AfterHardErrorStored(d, st) ==
  [ data |-> [d EXCEPT !.LastRun = Now], state |-> [d EXCEPT !.LastRun = Now] ]

\* the lifecycle call after runTest returned an error on model d: the
\* diagnostic is added and the call returns; the state st is not written
AfterHardError(d, st) == [ data |-> d, state |-> st ]

\* runTest up to the loop, on model d
RunTestBegin(d) ==
  /\ timeout' = ResolveTimeout(d.kind, clientConfig, d)
  /\ retries' = ResolveRetries(d.kind, clientConfig, d)
  /\ retryDelay' = ResolveRetryDelay(d.kind, clientConfig, d)
  /\ i' = 0 /\ err' = Null /\ elapsed' = 0 /\ obs' = ZeroObs(d.kind)
  /\ attempts' = 0 /\ sleeps' = 0 /\ log' = <<>> /\ lastStage' = "none"
  /\ handles' = [open |-> handles.open, most |-> handles.open]
  /\ clientConfig' = ClientConfigAfter(d.kind, clientConfig,
                                       ResolveTimeout(d.kind, clientConfig, d))
  /\ clock' = 0 /\ cancel' = Null
  /\ IF d.kind = "db" /\ DbUnsupported(d)
     THEN \* return fmt.Errorf("unsupported database type"): the caller adds
          \* the diagnostic and returns without writing the state
          /\ hardErr' = TRUE
          /\ data' = AfterHardError(d, state).data
          /\ state' = AfterHardError(d, state).state
          /\ pc' = "idle"
     ELSE IF d.kind = "http" /\ ~d.UrlOk
     THEN \* the request cannot be built: recorded, return nil, state written
          /\ hardErr' = FALSE
          /\ data' = [d EXCEPT !.Error = Some(<< [text |-> "Failed to create request"] >>),
                               !.TestPassed = Some(FALSE),
                               !.LastRun = Now]
          /\ state' = data'
          /\ pc' = "idle"
     ELSE /\ hardErr' = FALSE
          /\ data' = d
          /\ state' = state
          /\ pc' = IF 0 <= ResolveRetries(d.kind, clientConfig, d) THEN "loop" ELSE "post"

Create(k, plan) ==
  /\ pc = "idle"
  /\ state = NoState
  /\ op' = "Create"
  /\ RunTestBegin([plan EXCEPT !.Id = NewId(k)])
  /\ UNCHANGED << idVars, suiteVars, peer >>

\* a slip: Read hands back the stored result without running the probe
ReadCached ==
  /\ pc = "idle"
  /\ state # NoState
  /\ op' = "Read"
  /\ UNCHANGED << idVars, pc, clientConfig, data, state, resolved, loopVars, hardErr,
                  suiteVars, envVars >>

Read ==
  /\ pc = "idle"
  /\ state # NoState
  /\ op' = "Read"
  /\ RunTestBegin(state)
  /\ UNCHANGED << idVars, suiteVars, peer >>

Update(plan) ==
  /\ pc = "idle"
  /\ state # NoState
  /\ op' = "Update"
  /\ RunTestBegin([plan EXCEPT !.Id = state.Id])
  /\ UNCHANGED << idVars, suiteVars, peer >>

ImportState(k) ==
  /\ pc = "idle"
  /\ state = NoState
  /\ op' = "ImportState"
  /\ state' = Imported(k)
  /\ data' = NoState
  /\ hardErr' = FALSE
  /\ UNCHANGED << idVars, pc, clientConfig, resolved, loopVars, suiteVars, envVars >>

Delete ==
  /\ pc = "idle"
  /\ state # NoState
  /\ op' = "Delete"
  /\ data' = state
  /\ state' = NoState
  /\ hardErr' = FALSE
  /\ UNCHANGED << idVars, pc, clientConfig, resolved, loopVars, suiteVars, envVars >>

(***************************************************************************)
(* The retry loop.                                                         *)
(***************************************************************************)
LoopVars == [i |-> i, retries |-> retries, err |-> err, elapsed |-> elapsed, obs |-> obs]

\* one pass through the loop body, meeting outcome o after its blocking
\* calls took wait seconds
Attempt(o, wait) ==
  /\ pc = "loop"
  /\ i <= retries
  /\ LET n == AttemptStep(data, LoopVars, o)
     IN /\ err' = n.err
        /\ elapsed' = n.elapsed
        /\ obs' = n.obs
        /\ attempts' = attempts + 1
        /\ log' = Append(log, o.ok)
        /\ lastStage' = o.stage
        /\ handles' = IF data.kind = "db" THEN HandlesAfter(handles, DbHandleCalls(o))
                       ELSE handles
        /\ pc' = IF n.brk THEN "post"
                 ELSE IF n.slp THEN "sleep"
                 ELSE IF i + 1 <= retries THEN "loop" ELSE "post"
        /\ i' = IF n.brk \/ n.slp THEN i ELSE i + 1
  /\ clock' = clock + wait
  /\ UNCHANGED << idVars, clientConfig, op, data, state, resolved, sleeps, hardErr,
                  suiteVars, cancel, peer >>

\* time.Sleep(retryDelay), then the next pass
Sleep ==
  /\ pc = "sleep"
  /\ sleeps' = sleeps + 1
  /\ clock' = clock + SleepTime(retryDelay)
  /\ i' = i + 1
  /\ pc' = IF i + 1 <= retries THEN "loop" ELSE "post"
  /\ UNCHANGED << idVars, clientConfig, op, data, state, resolved,
                  err, elapsed, obs, attempts, log, lastStage, handles, hardErr,
                  suiteVars, cancel, peer >>

\* the rest of runTest and of the lifecycle call
Finish ==
  /\ pc = "post"
  /\ IF data.kind = "http" /\ HttpPanics(err, obs)
     THEN /\ pc' = "panic"
          /\ UNCHANGED << data, state >>
     ELSE /\ data' = [Post(data, err, elapsed, obs) EXCEPT !.LastRun = Now]
          /\ state' = data'
          /\ pc' = "idle"
  /\ UNCHANGED << idVars, clientConfig, op, resolved, loopVars, hardErr, suiteVars, envVars >>

Next ==
  \/ \E block \in ProviderBlocks : Configure(block)
  \/ \E k \in Kinds : \E plan \in Plans(k) : Create(k, plan)
  \/ Read
  \/ \E plan \in UpdatePlans(state) : Update(plan)
  \/ \E k \in Kinds : ImportState(k)
  \/ Delete
  \/ \E o \in Outcomes(data) : Attempt(o, 0)
  \/ Sleep
  \/ Finish

Spec == Init /\ [][Next]_vars

(***************************************************************************)
(* SpecConfig: the head of runTest applied to every provider block and     *)
(* every resource-level timeout, retry count and retry delay.              *)
(***************************************************************************)
ConfigInts == OptInt(-1, MaxSeconds)

ConfigBlocks ==
  { [default_timeout |-> t, default_retries |-> r,
     default_retry_delay |-> rd, user_agent |-> Null] :
      t \in ConfigInts, r \in ConfigInts, rd \in ConfigInts }

\* what a resource can give for retries and retry_delay, and for timeout
ResourceInts == {Null, Some(0), Some(MaxSeconds)}
ResourceTimeouts == ResourceInts \cup {Some(-1)}

\* runTest's first three statements on a model with the given attributes
ResolveHead(k, t, r, rd) ==
  /\ pc = "idle"
  /\ op' = "runTest head"
  /\ data' = [kind |-> k, Timeout |-> t, Retries |-> r, RetryDelay |-> rd]
  /\ timeout' = ResolveTimeout(k, clientConfig, data')
  /\ retries' = ResolveRetries(k, clientConfig, data')
  /\ retryDelay' = ResolveRetryDelay(k, clientConfig, data')
  /\ clientConfig' = ClientConfigAfter(k, clientConfig, timeout')
  /\ UNCHANGED << idVars, pc, state, loopVars, hardErr, suiteVars, envVars >>

NextConfig ==
  \/ \E block \in ConfigBlocks : Configure(block)
  \/ \E k \in Kinds :
       \E t \in ResourceTimeouts, r \in ResourceInts, rd \in ResourceInts :
         ResolveHead(k, t, r, rd)

SpecConfig == Init /\ [][NextConfig]_vars

(***************************************************************************)
(* The probes in their environment: the time the blocking calls take, the  *)
(* cancellation of the context handed to runTest, and a runTest call of    *)
(* another resource running at the same time.                              *)
(***************************************************************************)
\* longest wait met on a blocking call that no deadline ends
MaxWait == MaxSeconds + 1

Min(a, b) == IF a <= b THEN a ELSE b
Max(a, b) == IF a >= b THEN a ELSE b

\* The time the blocking calls of an attempt that starts c seconds into the
\* call can take before a deadline set from the resolved timeout t ends
\* them; Null when no such deadline exists.
\*   tcp:  net.DialTimeout(.., timeout), a zero timeout meaning none
\*   http: http.Client{Timeout: timeout}, applied to each client.Do
\*   dns:  the lookups run on the caller's ctx; timeout only bounds the dial
\*         of a custom resolver's socket, not the exchange on it
\*   db:   one context.WithTimeout(ctx, timeout) made before the loop
Available(d, t, c) ==
  CASE d.kind = "tcp"  -> IF t = 0 THEN Null ELSE Some(Max(t, 0))
    [] d.kind = "http" -> IF t > 0 THEN Some(t) ELSE Null
    [] d.kind = "dns"  -> Null
    [] d.kind = "db"   -> Some(Max(t - c, 0))

\* the calls of the attempt return an error at once: the deadline has
\* passed, or the context they were given is cancelled (TCP is given none)
ReturnsAtOnce(d, cn, av) ==
  \/ av = Some(0)
  \/ ~IsNull(cn) /\ d.kind # "tcp"

EnvOutcomes(d, cn, av) ==
  { o \in Outcomes(d) :
      ReturnsAtOnce(d, cn, av) => (~o.ok /\ o.stage \notin {"query", "rows"}) }

EnvWaits(d, cn, av) ==
  IF ReturnsAtOnce(d, cn, av) THEN {0}
  ELSE IF IsNull(av) THEN 0..MaxWait
  ELSE 0..Min(av[1], MaxWait)

\* the provider blocks and plans of SpecEnv: short timeouts and delays
EnvBlocks ==
  { [default_timeout |-> Some(MaxSeconds), default_retries |-> Some(r),
     default_retry_delay |-> Some(1), user_agent |-> Null] : r \in {1, MaxRetries} }

\* the resolver attribute of a DNS test: the system resolver or a custom one
Resolvers == {Null, Some("resolver")}

EnvPlans(k) ==
  LET timed == { [p EXCEPT !.Timeout = Some(t)] :
                   t \in 1..MaxSeconds, p \in { q \in Plans(k) : IsNull(q.Retries) } }
  IN IF k = "dns"
     THEN { [p EXCEPT !.Resolver = r] : p \in timed, r \in Resolvers }
     ELSE timed

\* the context handed to the lifecycle call is cancelled while runTest is in
\* an attempt or in the sleep before a retry
Cancel ==
  /\ pc \in {"loop", "sleep"}
  /\ IsNull(cancel)
  /\ cancel' = Some([attempts |-> attempts, sleeps |-> sleeps, pc |-> pc])
  /\ UNCHANGED << idVars, pc, clientConfig, op, data, state, resolved, loopVars, hardErr,
                  suiteVars, clock, peer >>

\* the head of runTest for another resource of kind k with timeout t
PeerHead(k, t) ==
  /\ pc \in {"loop", "sleep", "post"}
  /\ IsNull(peer)
  /\ LET d == [kind |-> k, Timeout |-> t, Retries |-> Null, RetryDelay |-> Null]
     IN /\ peer' = Some([ data |-> d,
                          timeout |-> ResolveTimeout(k, clientConfig, d),
                          retries |-> ResolveRetries(k, clientConfig, d),
                          retryDelay |-> ResolveRetryDelay(k, clientConfig, d) ])
        /\ clientConfig' = ClientConfigAfter(k, clientConfig,
                                             ResolveTimeout(k, clientConfig, d))
  /\ UNCHANGED << idVars, pc, op, data, state, resolved, loopVars, hardErr,
                  suiteVars, clock, cancel >>

\* the other resource's call returns
PeerReturn ==
  /\ ~IsNull(peer)
  /\ peer' = Null
  /\ UNCHANGED << idVars, pc, clientConfig, op, data, state, resolved, loopVars, hardErr,
                  suiteVars, clock, cancel >>

NextEnv ==
  \/ \E block \in EnvBlocks : Configure(block)
  \/ \E k \in Kinds : \E plan \in EnvPlans(k) : Create(k, plan)
  \/ Delete
  \/ \E o \in EnvOutcomes(data, cancel, Available(data, timeout, clock)) :
       \E wait \in EnvWaits(data, cancel, Available(data, timeout, clock)) :
         Attempt(o, wait)
  \/ Sleep
  \/ Finish
  \/ Cancel
  \/ \E k \in {"http", "tcp"} : \E t \in {Null, Some(MaxWait)} : PeerHead(k, t)
  \/ PeerReturn

SpecEnv == Init /\ [][NextEnv]_vars

(***************************************************************************)
(* runTest as a function of the configuration, the model and the outcome   *)
(* the target gives to each attempt, and two runs against the same target. *)
(***************************************************************************)
\* the loop from pass l.i on; os[n] is what attempt n meets
RECURSIVE RunLoop(_, _, _)
RunLoop(d, l, os) ==
  IF ~(l.i <= l.retries) THEN l
  ELSE LET n == AttemptStep(d, l, os[l.i + 1])
           after == [l EXCEPT !.err = n.err, !.elapsed = n.elapsed, !.obs = n.obs]
       IN IF n.brk THEN after
          ELSE RunLoop(d, [after EXCEPT !.i = l.i + 1], os)

\* runTest on model d: how it ends and the model it leaves
RunTest(cc, d, os) ==
  IF d.kind = "db" /\ DbUnsupported(d)
  THEN [end |-> "error", data |-> d]
  ELSE IF d.kind = "http" /\ ~d.UrlOk
  THEN [end |-> "nil",
        data |-> [d EXCEPT !.Error = Some(<< [text |-> "Failed to create request"] >>),
                           !.TestPassed = Some(FALSE)]]
  ELSE LET l == RunLoop(d, [i |-> 0, retries |-> ResolveRetries(d.kind, cc, d),
                            err |-> Null, elapsed |-> 0, obs |-> ZeroObs(d.kind)], os)
       IN IF d.kind = "http" /\ HttpPanics(l.err, l.obs)
          THEN [end |-> "panic", data |-> d]
          ELSE [end |-> "nil", data |-> Post(d, l.err, l.elapsed, l.obs)]

\* the provider blocks of SpecTwice: no attempt, one, or two and more
TwiceBlocks ==
  { [default_timeout |-> Null, default_retries |-> r,
     default_retry_delay |-> Null, user_agent |-> Null] : r \in OptInt(-1, 1) \ {Null} }

\* what a stable target gives to each of the attempts a call can make
StableTargets(cc, d) ==
  LET r == ResolveRetries(d.kind, cc, d)
  IN [ 1..(IF r >= 0 THEN r + 1 ELSE 0) -> { o \in Outcomes(d) : o.elapsed = 0 } ]

\* the same outcomes measured with another duration
Retimed(os, e) ==
  [ n \in DOMAIN os |->
      IF os[n].stage \in {"open", "ping"} THEN os[n] ELSE [os[n] EXCEPT !.elapsed = e] ]

\* Create and then Read of one resource against a stable target: the state
\* keeps the model the first run left, data the model of the second run
RunTwice(k, plan, os, e) ==
  /\ pc = "idle"
  /\ state = NoState
  /\ LET first == RunTest(clientConfig, [plan EXCEPT !.Id = NewId(k)], os)
         second == RunTest(clientConfig, first.data, Retimed(os, e))
     IN /\ first.end = "nil"
        /\ second.end = "nil"
        /\ state' = [first.data EXCEPT !.LastRun = Now]
        /\ data' = [second.data EXCEPT !.LastRun = Now]
  /\ op' = "RunTwice"
  /\ hardErr' = FALSE
  /\ UNCHANGED << idVars, pc, clientConfig, resolved, loopVars, suiteVars, envVars >>

NextTwice ==
  \/ \E block \in TwiceBlocks : Configure(block)
  \/ \E k \in Kinds : \E plan \in Plans(k) :
       \E os \in StableTargets(clientConfig, plan) : \E e \in Elapsed :
         RunTwice(k, plan, os, e)

SpecTwice == Init /\ [][NextTwice]_vars

(***************************************************************************)
(* The test suite resource: a container of references to probes.          *)
(***************************************************************************)
\* a null element of a set of test ids
NullElem == << "null", 0 >>

\* ElementsAs into a []string reports an error on a null element
ElementsAsFails(ids) == NullElem \in ids

evaluateHttpTests(httpTests) ==
  IF IsNull(httpTests) \/ IsUnknown(httpTests)
  THEN [passed |-> 0, total |-> 0]
  ELSE IF ElementsAsFails(httpTests[1])
  THEN [passed |-> 0, total |-> 0]
  ELSE [passed |-> Cardinality(httpTests[1]), total |-> Cardinality(httpTests[1])]

evaluateTcpTests(tcpTests) ==
  IF IsNull(tcpTests) \/ IsUnknown(tcpTests)
  THEN [passed |-> 0, total |-> 0]
  ELSE IF ElementsAsFails(tcpTests[1])
  THEN [passed |-> 0, total |-> 0]
  ELSE [passed |-> Cardinality(tcpTests[1]), total |-> Cardinality(tcpTests[1])]

evaluateDnsTests(dnsTests) ==
  IF IsNull(dnsTests) \/ IsUnknown(dnsTests)
  THEN [passed |-> 0, total |-> 0]
  ELSE IF ElementsAsFails(dnsTests[1])
  THEN [passed |-> 0, total |-> 0]
  ELSE [passed |-> Cardinality(dnsTests[1]), total |-> Cardinality(dnsTests[1])]

evaluateDbTests(dbTests) ==
  IF IsNull(dbTests) \/ IsUnknown(dbTests)
  THEN [passed |-> 0, total |-> 0]
  ELSE IF ElementsAsFails(dbTests[1])
  THEN [passed |-> 0, total |-> 0]
  ELSE [passed |-> Cardinality(dbTests[1]), total |-> Cardinality(dbTests[1])]

\* the evaluations and the result fields, as Create, Read and Update set them
SuiteResults(d) ==
  LET h == evaluateHttpTests(d.HttpTests)
      t == evaluateTcpTests(d.TcpTests)
      n == evaluateDnsTests(d.DnsTests)
      b == evaluateDbTests(d.DbTests)
      totalTests == h.total + t.total + n.total + b.total
      passedTests == h.passed + t.passed + n.passed + b.passed
  IN [ d EXCEPT !.TotalCount = Some(totalTests),
                !.PassedCount = Some(passedTests),
                !.FailedCount = Some(totalTests - passedTests),
                !.AllPassed = Some(passedTests = totalTests /\ totalTests > 0),
                !.FailedTests = Some(<<>>) ]

SuitePlan(h, t, n, b) ==
  [ kind |-> "suite", Name |-> Some("suite"), Description |-> Null,
    HttpTests |-> h, TcpTests |-> t, DnsTests |-> n, DbTests |-> b,
    Id |-> Unknown, LastRun |-> Unknown, AllPassed |-> Unknown,
    PassedCount |-> Unknown, FailedCount |-> Unknown, TotalCount |-> Unknown,
    FailedTests |-> Unknown ]

\* the sets a configuration can give: absent, or a set of ids and nulls
HttpSets == {Null} \cup { Some(s) : s \in SUBSET (HttpIds \cup {NullElem}) }
TcpSets == {Null} \cup { Some(s) : s \in SUBSET TcpIds }
DnsSets == {Null} \cup { Some(s) : s \in (SUBSET DnsIds) \ {{}} }
DbSets == {Null} \cup { Some(s) : s \in (SUBSET DbIds) \ {{}} }

SuitePlans ==
  { SuitePlan(h, t, n, b) :
      h \in HttpSets, t \in TcpSets, n \in DnsSets, b \in DbSets }

\* a probe's lifecycle call stored a result
ProbeResult(id, passed) ==
  /\ probes[id] # passed
  /\ probes' = [probes EXCEPT ![id] = passed]
  /\ UNCHANGED << idVars, pc, clientConfig, op, data, state, resolved, loopVars, envVars,
                  hardErr, suite, suiteOp >>

SuiteCreate(plan) ==
  /\ suite = NoState
  /\ suiteOp' = "Create"
  /\ suite' = SuiteResults([plan EXCEPT !.Id = NewId("test-suite"),
                                        !.LastRun = Now])
  /\ UNCHANGED << idVars, pc, clientConfig, op, data, state, resolved, loopVars, envVars,
                  hardErr, probes >>

SuiteRead ==
  /\ suite # NoState
  /\ suiteOp' = "Read"
  /\ suite' = SuiteResults([suite EXCEPT !.LastRun = Now])
  /\ UNCHANGED << idVars, pc, clientConfig, op, data, state, resolved, loopVars, envVars,
                  hardErr, probes >>

\* the plan keeps the id of the state (UseStateForUnknown)
SuiteUpdate(plan) ==
  /\ suite # NoState
  /\ suiteOp' = "Update"
  /\ suite' = SuiteResults([plan EXCEPT !.Id = suite.Id, !.LastRun = Now])
  /\ UNCHANGED << idVars, pc, clientConfig, op, data, state, resolved, loopVars, envVars,
                  hardErr, probes >>

SuiteDelete ==
  /\ suite # NoState
  /\ suiteOp' = "Delete"
  /\ suite' = NoState
  /\ UNCHANGED << idVars, pc, clientConfig, op, data, state, resolved, loopVars, envVars,
                  hardErr, probes >>

\* the state after an import holds the id only
SuiteImportState ==
  /\ suite = NoState
  /\ suiteOp' = "ImportState"
  /\ suite' = [ kind |-> "suite", Name |-> Null, Description |-> Null,
                HttpTests |-> Null, TcpTests |-> Null, DnsTests |-> Null,
                DbTests |-> Null, Id |-> NewId("test-suite"), LastRun |-> Null,
                AllPassed |-> Null, PassedCount |-> Null, FailedCount |-> Null,
                TotalCount |-> Null, FailedTests |-> Null ]
  /\ UNCHANGED << idVars, pc, clientConfig, op, data, state, resolved, loopVars, envVars,
                  hardErr, probes >>

NextSuite ==
  \/ \E id \in ProbeIds, passed \in BOOLEAN : ProbeResult(id, passed)
  \/ \E plan \in SuitePlans : SuiteCreate(plan)
  \/ SuiteRead
  \/ \E plan \in SuitePlans : SuiteUpdate(plan)
  \/ SuiteDelete
  \/ SuiteImportState

SpecSuite == Init /\ [][NextSuite]_vars

(***************************************************************************)
(* SpecIds: the identifiers Create gives to the resources of one           *)
(* configuration, and a suite that references them.                        *)
(***************************************************************************)
\* last tick of the wall clock
MaxTicks == 3
\* number of other probe resources a configuration creates
MaxResources == 2

IdBlocks ==
  { [default_timeout |-> Null, default_retries |-> Some(0),
     default_retry_delay |-> Null, user_agent |-> Null] }

IdPlans(k) == { p \in Plans(k) : IsNull(p.Retries) }

\* time passes
Tick ==
  /\ wallClock < MaxTicks
  /\ wallClock' = wallClock + 1
  /\ UNCHANGED << pc, clientConfig, op, data, state, resolved, loopVars, hardErr,
                  suiteVars, envVars, resources >>

\* Create of another probe resource of kind k, its runTest meeting os: the
\* model with its new id goes to the state unless runTest returns an error
CreateStored(k, plan, os) ==
  /\ pc = "idle"
  /\ suite = NoState
  /\ Len(resources) < MaxResources
  /\ LET run == RunTest(clientConfig, [plan EXCEPT !.Id = NewId(k)], os)
     IN /\ run.end = "nil"
        /\ resources' = Append(resources, [kind |-> k, Id |-> run.data.Id,
                                           created |-> wallClock])
  /\ UNCHANGED << pc, clientConfig, op, data, state, resolved, loopVars, hardErr,
                  suiteVars, envVars, wallClock >>

\* the id string of a stored resource, as an element of a suite's set
RefOf(r) == << r.kind, r.Id[1].at >>

\* http_tests = [for each resource of kind k: its id], absent when there is none
TestsOf(k) ==
  LET refs == { RefOf(resources[n]) : n \in { m \in DOMAIN resources : resources[m].kind = k } }
  IN IF refs = {} THEN Null ELSE Some(refs)

\* a suite over every stored resource
SuiteOver == SuitePlan(TestsOf("http"), TestsOf("tcp"), TestsOf("dns"), TestsOf("db"))

NextIds ==
  \/ \E block \in IdBlocks : Configure(block)
  \/ Tick
  \/ \E k \in Kinds : \E plan \in IdPlans(k) :
       \E os \in StableTargets(clientConfig, plan) : CreateStored(k, plan, os)
  \/ SuiteCreate(SuiteOver)

SpecIds == Init /\ [][NextIds]_vars

(***************************************************************************)
(* Properties.                                                             *)
(***************************************************************************)
\* the lifecycle calls that run a probe
CallOps == {"Create", "Read", "Update"}
\* a lifecycle call of a probe has returned
Returned == pc = "idle" /\ op \in CallOps
\* the latest pass of the loop succeeded / failed
LastOk == Len(log) >= 1 /\ log[Len(log)]
LastFailed == Len(log) >= 1 /\ ~log[Len(log)]

\* C1: with a resolved retry count R >= 0 a runTest call makes at most R+1
\* attempts, exactly one when the first attempt succeeds, and none after an
\* attempt that succeeded (only the latest attempt can be a success).
C1_AttemptsBounded ==
  retries >= 0 =>
    /\ attempts = Len(log)
    /\ attempts <= retries + 1
    /\ (Len(log) >= 1 /\ log[1] => attempts = 1)
    /\ \A n \in 1..Len(log) : log[n] => n = Len(log)

\* C1 witness: a DB call that failed once and then succeeded, with tries left
C1_Witness ==
  /\ Returned /\ data.kind = "db"
  /\ retries >= 2 /\ log = << FALSE, TRUE >>
  /\ ValueBool(data.TestPassed)

\* an HTTP response was read and fails a configured assertion
HttpMismatch ==
  /\ data.kind = "http" /\ LastOk /\ ~obs[1].BodyErr
  /\ \/ obs[1].StatusCode # (IF IsNull(data.ExpectStatusCode) THEN 200
                             ELSE data.ExpectStatusCode[1])
     \/ /\ ~IsNull(data.ExpectContains)
        /\ data.ExpectContains[1] # <<>>
        /\ ~Contains(obs[1].Body, data.ExpectContains[1])

\* a DNS lookup succeeded and no record equals the expected value
DnsMismatch ==
  /\ data.kind = "dns" /\ LastOk
  /\ ~IsNull(data.ExpectResult)
  /\ data.ExpectResult[1] # ""
  /\ \A n \in 1..Len(obs) : obs[n] # data.ExpectResult[1]

\* C2: an assertion failure is not retried: the attempt that got the
\* response (the lookup result) is the last one, every sleep came before it,
\* and the call returns with test_passed = false, no hard error and the
\* result stored.
C2_AssertionFailuresNotRetried ==
  data.kind \in {"http", "dns"} =>
    /\ \A n \in 1..Len(log) :
         log[n] => n = Len(log) /\ sleeps = n - 1 /\ pc \in {"post", "idle"}
    /\ Returned /\ (HttpMismatch \/ DnsMismatch) =>
         /\ data.TestPassed = Some(FALSE)
         /\ data.Error # Some(<<>>)
         /\ ~hardErr
         /\ state = data

\* C2 witness: after a transport failure and a sleep, a response with the
\* wrong status code ended the call with test_passed = false
C2_Witness ==
  /\ Returned /\ HttpMismatch
  /\ log = << FALSE, TRUE >> /\ sleeps = 1 /\ retries >= 2
  /\ obs[1].StatusCode = 200 /\ data.ExpectStatusCode = Some(404)

\* C3: when the last attempt failed (the attempts are exhausted) the call
\* returns no hard error, stores test_passed = false, and the error text is
\* that of the last attempt's failure.
C3_OperationalFailureRecorded ==
  Returned /\ LastFailed =>
    /\ ~hardErr
    /\ state = data
    /\ data.TestPassed = Some(FALSE)
    /\ Len(data.Error[1]) = 1
    /\ data.Error[1][1].cause = [attempt |-> attempts - 1, stage |-> lastStage]
    /\ attempts = retries + 1

\* C3 witness: a DB call whose three attempts failed, the last at the ping
C3_Witness ==
  /\ Returned /\ LastFailed /\ data.kind = "db"
  /\ attempts = 3 /\ lastStage = "ping"

\* C4: a DB model with an unsupported type ends the call at once with a hard
\* error: no attempt, no sleep, no test_passed = false, nothing stored.
C4_UnsupportedDbTypeHardError ==
  op \in CallOps /\ data.kind = "db" /\ data.Type \notin {"postgres", "mysql"} =>
    /\ pc = "idle"
    /\ hardErr
    /\ attempts = 0 /\ sleeps = 0
    /\ data.TestPassed # Some(FALSE)
    /\ state.kind = "db" =>
         state.Type \in {"postgres", "mysql"} \/ IsNull(state.TestPassed)

\* C4 witness: an Update to type "oracle" returned the hard error and the
\* state still holds the earlier result
C4_Witness ==
  /\ Returned /\ op = "Update" /\ data.kind = "db" /\ data.Type = "oracle"
  /\ hardErr /\ state.kind = "db" /\ state.Type = "postgres"
  /\ ~IsNull(state.TestPassed)

\* C5: with an unsupported DNS record type the call makes all R+1 attempts,
\* each failing, with a sleep between them, then stores test_passed = false
\* and an empty last_result, without a hard error.
C5_UnsupportedRecordType ==
  Returned /\ data.kind = "dns" /\ data.RecordType \notin RecordTypes =>
    /\ attempts = retries + 1
    /\ \A n \in 1..Len(log) : ~log[n]
    /\ (attempts >= 1 => sleeps = attempts - 1)
    /\ data.TestPassed = Some(FALSE)
    /\ data.LastResult = Some(<<>>)
    /\ ~hardErr

\* a suite lifecycle call that computes the results
SuiteCall ==
  \/ \E plan \in SuitePlans : SuiteCreate(plan)
  \/ SuiteRead
  \/ \E plan \in SuitePlans : SuiteUpdate(plan)

\* the ids a reference set holds
Referenced(tests) == IF Len(tests) = 1 THEN tests[1] \ {NullElem} ELSE {}
\* the probes the suite in the state references
SuiteReferences ==
  Referenced(suite.HttpTests) \cup Referenced(suite.TcpTests)
    \cup Referenced(suite.DnsTests) \cup Referenced(suite.DbTests)
\* the size of a reference set, a null or unknown set counting 0
SizeOf(tests) == IF Len(tests) = 1 THEN Cardinality(tests[1]) ELSE 0

\* C6: when a suite call returns, passed_count is the number of referenced
\* probes whose stored result is test_passed = true, failed_count is
\* total_count - passed_count, and failed_tests lists exactly the ids whose
\* stored result is test_passed = false.
C6_SuiteCountsResults ==
  [][ SuiteCall =>
        ( /\ suite.PassedCount =
               Some(Cardinality({ id \in SuiteReferences : probes[id] }))
          /\ suite.FailedCount = Some(suite.TotalCount[1] - suite.PassedCount[1])
          /\ { suite.FailedTests[1][n] : n \in 1..Len(suite.FailedTests[1]) }
               = { id \in SuiteReferences : ~probes[id] } )' ]_vars

\* C7: after every suite Create, Read and Update total_count is the sum of
\* the sizes of the four reference sets (a null or unknown set counts 0),
\* passed_count + failed_count = total_count, and all_passed holds exactly
\* when failed_count = 0 and total_count > 0.
C7_SuiteTotals ==
  suite # NoState /\ suiteOp \in CallOps =>
    /\ suite.TotalCount =
         Some(SizeOf(suite.HttpTests) + SizeOf(suite.TcpTests)
                + SizeOf(suite.DnsTests) + SizeOf(suite.DbTests))
    /\ suite.PassedCount[1] + suite.FailedCount[1] = suite.TotalCount[1]
    /\ suite.AllPassed =
         Some(suite.FailedCount[1] = 0 /\ suite.TotalCount[1] > 0)

\* the head of runTest has resolved the three values of a probe
Resolved == op = "runTest head"

\* C8: a resource-level retries or retry_delay is used only when it is > 0;
\* 0 or null yields the provider's value, so no resource gets zero retries
\* while the provider's retry count is positive.
C8_ResourceOverridesOnlyWhenPositive ==
  Resolved =>
    /\ (IsNull(data.Retries) \/ ValueInt64(data.Retries) = 0
          => retries = clientConfig.Retries)
    /\ (IsNull(data.RetryDelay) \/ ValueInt64(data.RetryDelay) = 0
          => retryDelay = clientConfig.RetryDelay)
    /\ (retries # clientConfig.Retries
          => data.Retries[1] > 0 /\ retries = data.Retries[1])
    /\ (retryDelay # clientConfig.RetryDelay
          => data.RetryDelay[1] > 0 /\ retryDelay = data.RetryDelay[1])
    /\ (clientConfig.Retries > 0 => retries # 0)

\* C8 witness: a resource asking for 0 retries got the provider's positive
\* retry count, and its positive retry_delay replaced the provider's
C8_Witness ==
  /\ Resolved
  /\ data.Retries = Some(0) /\ clientConfig.Retries > 0
  /\ retries = clientConfig.Retries
  /\ data.RetryDelay = Some(MaxSeconds) /\ clientConfig.RetryDelay = DefaultRetryDelay
  /\ retryDelay = MaxSeconds

\* C9: for every probe kind, a resource-level timeout that is unset or <= 0
\* yields the provider's default_timeout.
C9_TimeoutFallsBackToProvider ==
  Resolved /\ (IsNull(data.Timeout) \/ ValueInt64(data.Timeout) <= 0) =>
    timeout = clientConfig.Timeout

\* C10: for every provider configuration and resource configuration the
\* values are resolved to timeout > 0, retries >= 0 and retryDelay >= 0.
C10_ResolvedValuesInRange ==
  Resolved => timeout > 0 /\ retries >= 0 /\ retryDelay >= 0

\* the time the attempt that is about to start has for its blocking calls
TimeLeft == Available(data, timeout, clock)

\* C11: the timeout applies to each attempt separately: attempt k > 1 has the
\* full resolved timeout for its blocking calls, however much time the
\* earlier attempts and the sleeps took.
C11_TimeoutPerAttempt ==
  pc = "loop" /\ 1 <= i /\ i <= retries =>
    IsNull(TimeLeft) \/ TimeLeft[1] >= timeout

\* C12: once the context is cancelled the call fails fast: the attempt that
\* was running fails, the sleep before a retry is not completed and no
\* further attempt is started.
C12_CancellationFailsFast ==
  ~IsNull(cancel) =>
    /\ sleeps = cancel[1].sleeps
    /\ attempts <= cancel[1].attempts + (IF cancel[1].pc = "loop" THEN 1 ELSE 0)
    /\ (attempts > cancel[1].attempts => LastFailed)

\* C13: the blocking calls of every attempt are bounded by the resolved
\* timeout, so a call against a target that never answers makes at most
\* R+1 attempts, none of them waiting longer than the timeout.
C13_AttemptsBoundedByTimeout ==
  [][ attempts' = attempts + 1 =>
        /\ clock' - clock <= timeout
        /\ attempts' <= retries + 1 ]_vars

\* an HTTP call returned after an attempt that got a response and read it
HttpAnswered ==
  Returned /\ data.kind = "http" /\ LastOk /\ ~obs[1].BodyErr
\* the status of the response is the expected one (200 when none is set)
StatusMatches ==
  obs[1].StatusCode = (IF IsNull(data.ExpectStatusCode) THEN 200
                       ELSE data.ExpectStatusCode[1])
\* no non-empty expect_contains is set, or the body contains it
BodyMatches ==
  \/ IsNull(data.ExpectContains)
  \/ data.ExpectContains[1] = <<>>
  \/ Contains(obs[1].Body, data.ExpectContains[1])

\* C14: after a transport-successful HTTP attempt test_passed is true exactly
\* when the status is the expected one and the body holds the expected
\* substring; the error text is the status clause (expected and actual code)
\* followed by the substring clause, each present exactly when its check
\* failed, so it is empty when none failed.
C14_HttpAssertions ==
  HttpAnswered =>
    /\ data.TestPassed = Some(StatusMatches /\ BodyMatches)
    /\ data.Error =
         Some( (IF StatusMatches THEN <<>>
                ELSE << [text |-> "Expected status code",
                         expected |-> IF IsNull(data.ExpectStatusCode) THEN 200
                                      ELSE data.ExpectStatusCode[1],
                         got |-> obs[1].StatusCode] >>)
               \o
               (IF BodyMatches THEN <<>>
                ELSE << [text |-> "Response body does not contain",
                         expected |-> data.ExpectContains[1]] >>) )
    /\ data.LastStatusCode = Some(obs[1].StatusCode)
    /\ ~hardErr /\ state = data

\* C14 witness: status 200 where 404 is expected and a body without the
\* expected substring: both clauses, in order
C14_Witness ==
  /\ HttpAnswered /\ ~StatusMatches /\ ~BodyMatches
  /\ data.TestPassed = Some(FALSE)
  /\ Len(data.Error[1]) = 2
  /\ data.Error[1][1].text = "Expected status code"
  /\ data.Error[1][1].expected = 404 /\ data.Error[1][1].got = 200

\* some attempt of the call succeeded
SomeAttemptOk == \E n \in 1..Len(log) : log[n]

\* C15: TCP runTest reports test_passed = true exactly when one of its at
\* most R+1 dials connected (then the error is empty and last_connect_time
\* >= 0); when every dial failed it reports test_passed = false with the
\* error of the last dial; it never returns a hard error.
C15_TcpPassedIffConnected ==
  Returned /\ data.kind = "tcp" =>
    /\ ~hardErr /\ state = data
    /\ attempts <= (IF retries >= 0 THEN retries + 1 ELSE 0)
    /\ data.TestPassed = Some(SomeAttemptOk)
    /\ SomeAttemptOk =>
         data.Error = Some(<<>>) /\ data.LastConnectTime[1] >= 0
    /\ ~SomeAttemptOk =>
         /\ Len(data.Error[1]) = 1
         /\ data.Error[1][1].cause = [attempt |-> attempts - 1, stage |-> "dial"]

\* a DNS call returned after a lookup that gave no error
DnsAnswered == Returned /\ data.kind = "dns" /\ LastOk
\* a non-empty expect_result is configured
DnsExpects == ~IsNull(data.ExpectResult) /\ data.ExpectResult[1] # ""

\* C16: after a DNS lookup that succeeded, with a non-empty expect_result
\* test_passed is true exactly when an element of the result list equals it;
\* with none, test_passed is true only with a non-empty result list.
C16_DnsExpectation ==
  DnsAnswered =>
    IF DnsExpects
    THEN data.TestPassed =
           Some(\E n \in 1..Len(obs) : obs[n] = data.ExpectResult[1])
    ELSE data.TestPassed = Some(TRUE) => Len(obs) >= 1

\* C17: an error at any stage of a DB attempt is retried until the attempts
\* are used up; test_passed = true, with last_result_rows the rows the
\* attempt iterated, requires an attempt that finished every stage without
\* error; otherwise the result is test_passed = false and last_result_rows = 0.
C17_DbStages ==
  Returned /\ data.kind = "db" /\ ~hardErr =>
    /\ \A n \in 1..Len(log) : ~log[n] => n = retries + 1 \/ n < Len(log)
    /\ IF LastOk
       THEN /\ lastStage = "none"
            /\ data.TestPassed = Some(TRUE)
            /\ data.LastResultRows = Some(obs)
       ELSE /\ data.TestPassed = Some(FALSE)
            /\ data.LastResultRows = Some(0)

\* a step that is a Create, Read or Update of a probe resource
CallStep ==
  /\ pc = "idle" /\ op' \in CallOps
  /\ op' # op \/ pc' # pc \/ data' # data \/ attempts' # attempts
\* a step that ends runTest and the lifecycle call
ReturnStep == pc = "post" /\ pc' = "idle"
\* a step that is a Delete
DeleteStep == pc = "idle" /\ op' = "Delete" /\ (op # "Delete" \/ state' # state)

\* runTest has just been entered on the model of the call: nothing is left
\* of an earlier run, and the call either goes on to the loop or has ended
\* at once (unsupported database type, request that cannot be built)
RunTestEntered ==
  /\ op \in CallOps
  /\ attempts = 0 /\ sleeps = 0 /\ log = <<>> /\ IsNull(err)
  /\ \/ pc \in {"loop", "post"}
     \/ pc = "idle" /\ hardErr /\ data.kind = "db"
     \/ pc = "idle" /\ data.kind = "http" /\ data.TestPassed = Some(FALSE)
          /\ state = data

\* the result in the state is the one of the run that just ended
ResultOfThisRun ==
  /\ pc = "idle" /\ op \in CallOps /\ ~hardErr
  /\ state = data /\ data.LastRun = Now
  /\ LastFailed => data.TestPassed = Some(FALSE)
  /\ LastOk /\ data.kind \in {"tcp", "db"} => data.TestPassed = Some(TRUE)

PeerStep == peer' # peer

\* a step of this resource's invocation while the other one is running
OwnStep == ~IsNull(peer) /\ peer' = peer /\ pc \in {"loop", "sleep", "post"}

\* the values an invocation works with are those its own model resolves to
UsesOwnValues ==
  /\ pc \in {"loop", "sleep", "post"} =>
        /\ timeout = ResolveTimeout(data.kind, clientConfig, data)
        /\ retries = ResolveRetries(data.kind, clientConfig, data)
        /\ retryDelay = ResolveRetryDelay(data.kind, clientConfig, data)
  /\ ~IsNull(peer) =>
        /\ peer[1].timeout = ResolveTimeout(peer[1].data.kind, clientConfig, peer[1].data)
        /\ peer[1].retries = ResolveRetries(peer[1].data.kind, clientConfig, peer[1].data)
        /\ peer[1].retryDelay =
             ResolveRetryDelay(peer[1].data.kind, clientConfig, peer[1].data)

\* C20: no step of a configured provider's runTest writes the provider-wide
\* client configuration; a step of one invocation changes nothing the other
\* invocation works with, and each one works with the timeout, retries and
\* retry delay of its own resource.
C20_NoSharedMutableState ==
  [][ /\ pc # "unconfigured" => clientConfig' = clientConfig
      /\ PeerStep => UNCHANGED << pc, op, data, state, resolved, loopVars, hardErr,
                                  clock, cancel >>
      /\ OwnStep => peer' = peer
      /\ UsesOwnValues' ]_vars

\* C20 witness: an HTTP invocation has made an attempt while an invocation
\* for another HTTP resource with a different timeout is running
C20_Witness ==
  /\ pc = "loop" /\ attempts >= 1 /\ data.kind = "http"
  /\ ~IsNull(peer) /\ peer[1].data.kind = "http"
  /\ peer[1].timeout # timeout

\* C21: a sleep follows a failed attempt exactly when another attempt follows
\* it: when the loop is left the call has slept once less than it has
\* attempted; it is never asleep after a successful attempt or after the
\* final one, and every sleep is followed by another attempt.
C21_SleepsBetweenAttempts ==
  /\ pc = "post" => sleeps = attempts - 1
  /\ pc = "sleep" => LastFailed /\ attempts <= retries /\ sleeps = attempts - 1
  /\ pc = "loop" => sleeps = attempts /\ attempts <= retries

\* the latest HTTP pass got a response and its body was read without error
HttpAttemptSucceeded == LastOk /\ ~obs[1].BodyErr

\* C22: an HTTP attempt stops the retry loop exactly when the transport gave
\* no error and the body was read without error: the loop is left only after
\* such an attempt or after the last of the retries + 1 attempts, and never
\* continues after one.
C22_HttpBodyReadRetried ==
  op \in CallOps /\ data.kind = "http" /\ attempts >= 1 =>
    /\ pc \in {"post", "idle"} => HttpAttemptSucceeded \/ attempts = retries + 1
    /\ pc \in {"loop", "sleep"} => ~HttpAttemptSucceeded

\* a call returned test_passed = false for an operational error: the request
\* could not be built, the latest attempt failed, or its body was not read
OperationalFailure ==
  /\ Returned /\ ~hardErr
  /\ data.TestPassed = Some(FALSE)
  /\ ~LastOk \/ (data.kind = "http" /\ obs[1].BodyErr)

\* C23: a probe reports test_passed = false for an operational error only
\* after it has made all of its retries + 1 attempts.
C23_OperationalErrorsRetried ==
  OperationalFailure => attempts = retries + 1

\* the elapsed time a probe's result holds
StoredElapsed ==
  CASE data.kind = "tcp"  -> data.LastConnectTime
    [] data.kind = "http" -> data.LastResponseTime
    [] data.kind = "dns"  -> data.LastResultTime
    [] data.kind = "db"   -> data.LastQueryTime

\* C24: the elapsed time in the result of a call that made an attempt is the
\* duration measured in its last attempt, the successful one or the final
\* failed one.
C24_ElapsedOfLastAttempt ==
  Returned /\ ~hardErr /\ attempts >= 1 => StoredElapsed = Some(elapsed)

\* C25: a result with test_passed = true comes from a call that made at
\* least one attempt and whose last attempt succeeded.
C25_PassedNeedsSuccessfulAttempt ==
  Returned /\ ~hardErr /\ data.TestPassed = Some(TRUE) =>
    attempts >= 1 /\ LastOk

\* C26: after a call that returned without a hard error test_passed is true
\* exactly when the error attribute is the empty string.
C26_PassedIffNoErrorText ==
  Returned /\ ~hardErr =>
    /\ data.TestPassed \in {Some(TRUE), Some(FALSE)}
    /\ Len(data.Error) = 1
    /\ data.TestPassed = Some(TRUE) <=> data.Error = Some(<<>>)

\* C26 witness: a Read of a TCP resource connected at its second dial and
\* stored test_passed = true with an empty error
C26_Witness ==
  /\ Returned /\ op = "Read" /\ data.kind = "tcp"
  /\ log = << FALSE, TRUE >>
  /\ data.TestPassed = Some(TRUE) /\ data.Error = Some(<<>>)

\* the result attributes of each kind besides test_passed and error
ResultFields(k) ==
  CASE k = "tcp"  -> {"LastConnectTime"}
    [] k = "http" -> {"LastStatusCode", "LastResponseBody", "LastResponseTime"}
    [] k = "dns"  -> {"LastResult", "LastResultTime"}
    [] k = "db"   -> {"LastQueryTime", "LastResultRows"}

\* C27: a call that recorded test_passed = false has written every result
\* field of the model: none is left unknown (as the plan had it) or null.
C27_FailureOverwritesResults ==
  Returned /\ ~hardErr /\ data.TestPassed = Some(FALSE) =>
    \A f \in ResultFields(data.kind) : Len(data[f]) = 1

\* two stored resources of one kind
SameKind(m, n) == m # n /\ resources[m].kind = resources[n].kind

\* C28: the resources of one kind hold pairwise distinct identifiers, and a
\* suite created over n stored resources counts n.
C28_IdentifiersUnique ==
  /\ \A m, n \in DOMAIN resources :
       SameKind(m, n) => resources[m].Id # resources[n].Id
  /\ suite # NoState => suite.TotalCount = Some(Len(resources))

\* C29: between the passes of the DB loop and after runTest no database
\* handle is open, and never more than one was open at a time.
C29_DbHandlesClosed ==
  /\ handles.open = 0
  /\ handles.most <= 1

\* C29 witness: a DB call returned after three passes, the last one failing
\* in the row iteration, having opened a handle
C29_Witness ==
  /\ Returned /\ data.kind = "db"
  /\ attempts = 3 /\ lastStage = "rows"
  /\ handles = [open |-> 0, most |-> 1]

\* the stored state holds the result of an earlier run
HoldsResult(st) == st # NoState /\ st.TestPassed \in {Some(TRUE), Some(FALSE)}

\* the attributes a run writes
WrittenFields(k) == ResultFields(k) \cup {"TestPassed", "Error", "LastRun"}

\* C30: a Create, Read or Update whose runTest returns a hard error makes no
\* attempt, leaves every result field and last_run of its model as the model
\* read from the plan or the state had them, and leaves the stored state as
\* it was.
C30_HardErrorWritesNothing ==
  [][ CallStep /\ hardErr' =>
        /\ pc' = "idle" /\ attempts' = 0
        /\ state' = state
        /\ \A f \in WrittenFields(data'.kind) :
             data'[f] = IF op' = "Read" THEN state[f] ELSE Unknown ]_vars

\* C30 witness: an Update to an unsupported database type returned with a
\* hard error while the state keeps the result of the earlier run
C30_Witness ==
  /\ Returned /\ op = "Update" /\ hardErr
  /\ data.kind = "db" /\ data.Type \notin DbTypes
  /\ HoldsResult(state) /\ state.Type \in DbTypes
  /\ IsUnknown(data.TestPassed)
====
